---- MODULE Spec2Model ----
(***************************************************************************)
(* Moodarr: the /search, /recommend and /library-stats endpoints and the   *)
(* require_api_key decorator of backend/app.py, and the TTL-cached library *)
(* snapshot of backend/plex_service.py.                                    *)
(*                                                                         *)
(* Conventions.                                                            *)
(*  - A Python value that may be None is a set with at most one element:   *)
(*    {} is None, {v} is v.                                                *)
(*  - A string that the code lowercases or parses is a sequence of         *)
(*    one-character strings; a string that is only compared for equality   *)
(*    (a genre tag, a mood name, a sort name) is a TLA+ string.            *)
(*  - Ratings are whole rating points (Plex rates 0..10).                  *)
(*  - A movie dict handed around by reference is its index in the          *)
(*    snapshot's movie list.                                               *)
(***************************************************************************)
EXTENDS Integers, Sequences, FiniteSets, TLC

VARIABLES
    server,     \* PlexService.server: TRUE when a PlexServer object is held
    library,    \* the Plex library section: the movie objects .all() returns
    history,    \* the Plex server's watch history: what server.history() returns
    cache,      \* PlexService.cache: the TTLCache's items
    now,        \* the clock the TTLCache reads
    calls,      \* the get_library_data calls in progress, one per thread
    req,        \* the request the last handler run was given
    resp        \* the response that handler run produced

vars == <<server, library, history, cache, now, calls, req, resp>>

-----------------------------------------------------------------------------
(* Python values *)

None == {}

Some(v) == {v}

Val(x) == CHOOSE v \in x : TRUE

\* bool(x) of a number or None
TruthyNum(x) == x # None /\ x # {0}

\* bool(x) of a string or None
TruthyStr(x) == x # None /\ x # {<<>>}

\* x or d, for a number x
OrNum(x, d) == IF TruthyNum(x) THEN Val(x) ELSE d

Range(s) == {s[i] : i \in 1..Len(s)}

Min(a, b) == IF a < b THEN a ELSE b

Max(a, b) == IF a > b THEN a ELSE b

\* s[:k], for any integer k: a negative k counts from the end
SliceTo(s, k) ==
    IF k >= 0 THEN SubSeq(s, 1, Min(k, Len(s)))
    ELSE SubSeq(s, 1, Max(Len(s) + k, 0))

UpperChars == <<"A", "B", "C", "D", "E", "F", "G", "H", "I", "J", "K", "L", "M",
                "N", "O", "P", "Q", "R", "S", "T", "U", "V", "W", "X", "Y", "Z">>

LowerChars == <<"a", "b", "c", "d", "e", "f", "g", "h", "i", "j", "k", "l", "m",
                "n", "o", "p", "q", "r", "s", "t", "u", "v", "w", "x", "y", "z">>

LowerChar(c) ==
    IF \E i \in 1..Len(UpperChars) : UpperChars[i] = c
    THEN LowerChars[CHOOSE i \in 1..Len(UpperChars) : UpperChars[i] = c]
    ELSE c

\* str.lower()
Lower(s) == [i \in 1..Len(s) |-> LowerChar(s[i])]

\* a in b, for strings
Contains(a, b) ==
    \E k \in 0..(Len(b) - Len(a)) : SubSeq(b, k + 1, k + Len(a)) = a

\* str.strip("s"): every leading and every trailing "s" goes
RECURSIVE StripS(_)
StripS(s) ==
    IF s = <<>> THEN s
    ELSE IF Head(s) = "s" THEN StripS(Tail(s))
    ELSE IF s[Len(s)] = "s" THEN StripS(SubSeq(s, 1, Len(s) - 1))
    ELSE s

Digits == <<"0", "1", "2", "3", "4", "5", "6", "7", "8", "9">>

IsDigit(c) == \E i \in 1..Len(Digits) : Digits[i] = c

DigitVal(c) == (CHOOSE i \in 1..Len(Digits) : Digits[i] = c) - 1

RECURSIVE DecimalVal(_)
DecimalVal(s) ==
    IF s = <<>> THEN 0
    ELSE 10 * DecimalVal(SubSeq(s, 1, Len(s) - 1)) + DigitVal(s[Len(s)])

\* int(s) over the alphabet of digits and letters: None stands for ValueError
IntParse(s) ==
    IF s # <<>> /\ \A i \in 1..Len(s) : IsDigit(s[i])
    THEN Some(DecimalVal(s))
    ELSE None

-----------------------------------------------------------------------------
(* The mood registry: app.py, MOOD_MAPPINGS.  config.yaml maps a mood name *)
(* to a rule with up to four keys; a key that is absent is None here.      *)

Rule(genres, exclude_genres, rating_min, runtime_max) ==
    [genres |-> genres, exclude_genres |-> exclude_genres,
     rating_min |-> rating_min, runtime_max |-> runtime_max]

MOOD_MAPPINGS ==
    [name \in {"thrilling", "cozy", "quick", "acclaimed", "blank"} |->
        CASE name = "thrilling" -> Rule(Some({"Action"}), None, Some(7), None)
          [] name = "cozy"      -> Rule(Some({"Comedy", "Drama"}), Some({"Horror"}), None, Some(100))
          [] name = "quick"     -> Rule(None, None, None, Some(100))
          [] name = "acclaimed" -> Rule(None, Some({"Horror"}), Some(7), None)
          [] OTHER              -> Rule(None, None, None, None)]

\* bool(x) of a tag (a genre, a mood name) or None
TruthyTag(x) == x # None /\ x # {""}

\* MOOD_MAPPINGS.get(mood) if mood else None
resolve_mood(mood) ==
    IF TruthyTag(mood) /\ Val(mood) \in DOMAIN MOOD_MAPPINGS
    THEN Some(MOOD_MAPPINGS[Val(mood)])
    ELSE None

\* bool(mood_config): None and the empty dict are falsy
TruthyRule(mood_config) ==
    /\ mood_config # None
    /\ \/ Val(mood_config).genres # None
       \/ Val(mood_config).exclude_genres # None
       \/ Val(mood_config).rating_min # None
       \/ Val(mood_config).runtime_max # None

-----------------------------------------------------------------------------
(* /search: the filter loop *)

\* the mood block of the filter loop: TRUE when no `continue` is taken
search_mood_pass(movie, rule) ==
    LET movie_genres == Range(movie.genres) IN
    /\ rule.genres # None =>
          \E g \in Val(rule.genres) : g \in movie_genres
    /\ rule.exclude_genres # None =>
          ~ \E g \in Val(rule.exclude_genres) : g \in movie_genres
    /\ rule.rating_min # None =>
          ~ (OrNum(movie.rating, 0) < Val(rule.rating_min))
    /\ rule.runtime_max # None =>
          ~ (OrNum(movie.runtime, 0) > Val(rule.runtime_max))

\* the decade block: "pass", "drop", or "raise" (int <= None is a TypeError,
\* which `except ValueError` does not catch)
decade_step(movie, decade) ==
    IF ~TruthyStr(decade) THEN "pass"
    ELSE LET decade_start == IntParse(StripS(Val(decade))) IN
         IF decade_start = None THEN "pass"
         ELSE IF movie.year = None THEN "raise"
         ELSE IF ~ (Val(decade_start) <= Val(movie.year)
                    /\ Val(movie.year) < Val(decade_start) + 10) THEN "drop"
         ELSE "pass"

\* one iteration of the filter loop: "keep" (appended), "drop" (continue), or
\* "raise" (None < int is a TypeError)
filter_movie(movie, q, mood_config) ==
    LET movie_genres == Range(movie.genres) IN
    IF q.unwatched_only /\ movie.watched THEN "drop"
    ELSE IF TruthyTag(q.genre) /\ Val(q.genre) \notin movie_genres THEN "drop"
    ELSE IF TruthyRule(mood_config) /\ ~search_mood_pass(movie, Val(mood_config)) THEN "drop"
    ELSE IF TruthyNum(q.year_start) /\ movie.year = None THEN "raise"
    ELSE IF TruthyNum(q.year_start) /\ Val(movie.year) < Val(q.year_start) THEN "drop"
    ELSE IF TruthyNum(q.year_end) /\ movie.year = None THEN "raise"
    ELSE IF TruthyNum(q.year_end) /\ Val(movie.year) > Val(q.year_end) THEN "drop"
    ELSE IF decade_step(movie, q.decade) # "pass" THEN decade_step(movie, q.decade)
    ELSE IF TruthyNum(q.runtime_min) /\ Val(movie.runtime) < Val(q.runtime_min) THEN "drop"
    ELSE IF TruthyNum(q.runtime_max) /\ Val(movie.runtime) > Val(q.runtime_max) THEN "drop"
    ELSE IF TruthyNum(q.rating_min) /\ OrNum(movie.rating, 0) < Val(q.rating_min) THEN "drop"
    ELSE IF TruthyStr(q.actor)
            /\ ~ \E i \in 1..Len(movie.actors) :
                    Contains(Lower(Val(q.actor)), Lower(movie.actors[i])) THEN "drop"
    ELSE IF TruthyStr(q.director)
            /\ ~ Contains(Lower(Val(q.director)),
                          Lower(IF movie.director = None THEN <<>> ELSE Val(movie.director)))
         THEN "drop"
    ELSE "keep"

\* the indexes i of s, in order, with steps[i] = "keep"
RECURSIVE KeptUpTo(_, _)
KeptUpTo(steps, n) ==
    IF n = 0 THEN <<>>
    ELSE IF steps[n] = "keep" THEN Append(KeptUpTo(steps, n - 1), n)
    ELSE KeptUpTo(steps, n - 1)

-----------------------------------------------------------------------------
(* /search: ordering and limits *)

\* list.sort(key=...): ascending, equal keys keep their order
RECURSIVE SortAscUpTo(_, _, _)
SortAscUpTo(s, key, n) ==
    IF n = 0 THEN <<>>
    ELSE LET done == SortAscUpTo(s, key, n - 1)
             p == Cardinality({j \in 1..Len(done) : key[done[j]] <= key[s[n]]})
         IN SubSeq(done, 1, p) \o <<s[n]>> \o SubSeq(done, p + 1, Len(done))

\* list.sort(key=..., reverse=True): descending, equal keys keep their order
RECURSIVE SortDescUpTo(_, _, _)
SortDescUpTo(s, key, n) ==
    IF n = 0 THEN <<>>
    ELSE LET done == SortDescUpTo(s, key, n - 1)
             p == Cardinality({j \in 1..Len(done) : key[done[j]] >= key[s[n]]})
         IN SubSeq(done, 1, p) \o <<s[n]>> \o SubSeq(done, p + 1, Len(done))

\* ascending sort, then reversed: descending, but equal keys change places
sort_then_reverse(s, key) ==
    LET up == SortAscUpTo(s, key, Len(s)) IN
    [i \in 1..Len(s) |-> up[Len(s) + 1 - i]]

sort_reverse(s, key) == SortDescUpTo(s, key, Len(s))

sort_forward(s, key) == SortAscUpTo(s, key, Len(s))

\* sorting by `x.get('added_at') or 0` compares a datetime with the int 0 as
\* soon as one movie has added_at and another has none: a TypeError
recent_sort_raises(movies, filtered_movies) ==
    /\ \E i \in Range(filtered_movies) : movies[i].added_at = None
    /\ \E i \in Range(filtered_movies) : movies[i].added_at # None

\* the `if/elif` on sort_order: the list after sorting
sorted_movies(movies, filtered_movies, sort_order) ==
    CASE sort_order = "rating" ->
           sort_reverse(filtered_movies,
                        [i \in 1..Len(movies) |-> OrNum(movies[i].rating, 0)])
      [] sort_order = "recent" ->
           sort_reverse(filtered_movies,
                        [i \in 1..Len(movies) |-> OrNum(movies[i].added_at, 0)])
      [] sort_order = "oldest" ->
           sort_forward(filtered_movies,
                        [i \in 1..Len(movies) |-> OrNum(movies[i].year, 0)])
      [] OTHER -> filtered_movies

\* the default weight of a movie without a rating (or rated 0)
DEFAULT_WEIGHT == 5

\* m.get('rating') or 5.0
weight_of(movie) == OrNum(movie.rating, DEFAULT_WEIGHT)

RECURSIVE SumWeights(_, _, _)
SumWeights(pool, w, n) ==
    IF n = 0 THEN 0 ELSE SumWeights(pool, w, n - 1) + w[pool[n]]

\* the inner for loop: the first position at which the running sum reaches
\* pick_val, or 0 when the loop ends without a break
walk(temp_pool, w, pick_val) ==
    LET hits == {i \in 1..Len(temp_pool) : SumWeights(temp_pool, w, i) >= pick_val} IN
    IF hits = {} THEN 0 ELSE CHOOSE i \in hits : \A j \in hits : i <= j

\* a pop that removes nothing: the draw is made with replacement
PopKeepsAll(s, i) == s

\* list.pop(i)
Pop(s, i) == SubSeq(s, 1, i - 1) \o SubSeq(s, i + 1, Len(s))

\* random.uniform(0, b): any value between 0 and b, both ends included
Uniform(b) == Min(0, b)..Max(0, b)

\* the outer for loop: every `selected` list that `rounds` draws can produce
RECURSIVE weighted_select(_, _, _)
weighted_select(temp_pool, w, rounds) ==
    IF rounds <= 0 THEN {<<>>}
    ELSE LET total == SumWeights(temp_pool, w, Len(temp_pool))
             picks == {walk(temp_pool, w, pick_val) : pick_val \in Uniform(total)}
         IN UNION {
              IF i = 0 THEN weighted_select(temp_pool, w, rounds - 1)
              ELSE {<<temp_pool[i]>> \o rest :
                      rest \in weighted_select(Pop(temp_pool, i), w, rounds - 1)}
              : i \in picks}

\* random.shuffle(s): every order of s
Shuffles(s) ==
    {[i \in 1..Len(s) |-> s[p[i]]] :
        p \in {f \in [1..Len(s) -> 1..Len(s)] :
                 \A a, b \in 1..Len(s) : a # b => f[a] # f[b]}}

\* "Apply Limits": every list the handler can return
limited(movies, filtered_movies, sort_order, limit) ==
    IF sort_order = "random" /\ filtered_movies # <<>>
    THEN LET w == [i \in 1..Len(movies) |-> weight_of(movies[i])]
             total_weight == SumWeights(filtered_movies, w, Len(filtered_movies))
         IN IF total_weight > 0
            THEN weighted_select(filtered_movies, w, Min(limit, Len(filtered_movies)))
            ELSE {SliceTo(s, limit) : s \in Shuffles(filtered_movies)}
    ELSE {SliceTo(filtered_movies, limit)}

-----------------------------------------------------------------------------
(* The TTLCache of PlexService.__init__ and the snapshot it holds *)

\* TTLCache(maxsize=1, ...)
MAXSIZE == 1

\* CACHE_TTL, in clock ticks
CACHE_TTL == 2

\* key in cache: the item is there and has not expired
cache_contains(key) == \E e \in cache : e.key = key /\ now < e.expires

\* cache[key], where key in cache
cache_getitem(key) == (CHOOSE e \in cache : e.key = key).value

\* the items left of `items` once the oldest are popped to make room for one more
RECURSIVE Evicted(_)
Evicted(items) ==
    IF Cardinality(items) + 1 <= MAXSIZE THEN items
    ELSE Evicted(items \ {CHOOSE e \in items : \A o \in items : e.expires <= o.expires})

\* cache[key] = value: expired items go, the key's old item goes, the oldest
\* items go until the new one fits, and the new item expires CACHE_TTL from now
cache_setitem(key, value) ==
    LET live == {e \in cache : now < e.expires}
        others == {e \in live : e.key # key}
    IN Evicted(others) \cup {[key |-> key, value |-> value, expires |-> now + CACHE_TTL]}

\* _serialize_movie, the fields the handlers and the snapshot's sets read
serialize_movie(movie) ==
    [watched  |-> movie.isPlayed,
     genres   |-> movie.genres,
     rating   |-> IF TruthyNum(movie.audienceRating) THEN movie.audienceRating
                  ELSE movie.rating,
     runtime  |-> IF TruthyNum(movie.duration) THEN Some(Val(movie.duration) \div 60000)
                  ELSE Some(0),
     year     |-> movie.year,
     director |-> IF movie.directors # <<>> THEN Some(movie.directors[1]) ELSE None,
     actors   |-> movie.roles,
     added_at |-> movie.addedAt]

\* the loop's locals before its first iteration
NoMovies == [movies_data |-> <<>>, all_genres |-> {}, all_actors |-> {},
             all_directors |-> {}]

\* a loop body that assigns the sets where the code updates them
aggregate_overwrites(acc, serialized) ==
    [movies_data   |-> Append(acc.movies_data, serialized),
     all_genres    |-> IF serialized.genres # <<>>
                       THEN Range(serialized.genres) ELSE acc.all_genres,
     all_actors    |-> IF serialized.actors # <<>>
                       THEN Range(serialized.actors) ELSE acc.all_actors,
     all_directors |-> IF TruthyStr(serialized.director)
                       THEN {Val(serialized.director)} ELSE acc.all_directors]

\* one iteration of the refresh loop, after the movie is serialized
aggregate(acc, serialized) ==
    [movies_data   |-> Append(acc.movies_data, serialized),
     all_genres    |-> IF serialized.genres # <<>>
                       THEN acc.all_genres \cup Range(serialized.genres)
                       ELSE acc.all_genres,
     all_actors    |-> IF serialized.actors # <<>>
                       THEN acc.all_actors \cup Range(serialized.actors)
                       ELSE acc.all_actors,
     all_directors |-> IF TruthyStr(serialized.director)
                       THEN acc.all_directors \cup {Val(serialized.director)}
                       ELSE acc.all_directors]

\* the library_data dict (sorted(list(a_set)): a sorted list without repeats
\* is the set)
library_data(acc, t) ==
    [movies |-> acc.movies_data, genres |-> acc.all_genres,
     actors |-> acc.all_actors, directors |-> acc.all_directors,
     last_refresh |-> t]

RECURSIVE AggregateAll(_, _)
AggregateAll(movies_data, n) ==
    IF n = 0 THEN NoMovies
    ELSE aggregate(AggregateAll(movies_data, n - 1), movies_data[n])

\* the library_data dict a refresh builds from the serialized movies
library_data_of(movies_data, t) ==
    library_data(AggregateAll(movies_data, Len(movies_data)), t)

-----------------------------------------------------------------------------
(* /search *)

Raised(kind) == [kind |-> kind, status |-> "raised", filtered |-> <<>>,
                 ordered |-> <<>>, body |-> <<>>]

\* the handler from `movies = data['movies']` on: every response it can give
search_responses(data, q) ==
    LET movies == data.movies
        mood_config == resolve_mood(q.mood)
        steps == [i \in 1..Len(movies) |-> filter_movie(movies[i], q, mood_config)]
        filtered_movies == KeptUpTo(steps, Len(movies))
        ordered == sorted_movies(movies, filtered_movies, q.sort_order)
    IN IF \E i \in 1..Len(movies) : steps[i] = "raise"
       THEN {Raised("search")}
       ELSE IF q.sort_order = "recent" /\ recent_sort_raises(movies, filtered_movies)
       THEN {Raised("search")}
       ELSE {[kind |-> "search", status |-> "ok",
              filtered |-> filtered_movies, ordered |-> ordered, body |-> body] :
                body \in limited(movies, ordered, q.sort_order, q.limit)}

\* the handler, run on a warm cache (get_library_data returns the cached entry)
search(q) ==
    /\ req.kind = "none"
    /\ server
    /\ cache_contains("library_data")
    /\ \E r \in search_responses(cache_getitem("library_data"), q) : resp' = r
    /\ req' = [kind |-> "search", q |-> q]
    /\ UNCHANGED <<server, library, history, cache, now, calls>>

\* the response goes out and the request context is torn down: the worker is
\* free for the next request
respond ==
    /\ req.kind # "none"
    /\ req' = [kind |-> "none"]
    /\ resp' = [kind |-> "none"]
    /\ UNCHANGED <<server, library, history, cache, now, calls>>

\* request.args.get('limit', default=5, type=int)
DEFAULT_LIMIT == 5

\* the parameters of a request that carries no query string
DefaultQuery ==
    [unwatched_only |-> TRUE, genre |-> None, mood |-> None,
     year_start |-> None, year_end |-> None, decade |-> None,
     runtime_min |-> None, runtime_max |-> None, rating_min |-> None,
     actor |-> None, director |-> None,
     limit |-> DEFAULT_LIMIT, sort_order |-> "random"]

\* a warm cache holding the snapshot of `movies_data`
WarmInit(movies_data) ==
    /\ server = TRUE
    /\ library = <<>>
    /\ history = <<>>
    /\ now = 0
    /\ cache = {[key |-> "library_data", value |-> library_data_of(movies_data, 0),
                 expires |-> CACHE_TTL]}
    /\ calls = <<>>
    /\ req = [kind |-> "none"]
    /\ resp = [kind |-> "none"]

-----------------------------------------------------------------------------
(* Requests: a query string names at most MaxParams parameters             *)

MaxParams == 2

\* a snapshot lists at most MaxMovies movies
MaxMovies == 3

\* every list of at most n elements of U
ListsOf(U, n) == UNION {[1..k -> U] : k \in 0..n}

Nolan == <<"N", "o", "l", "a", "n">>

Lee == <<"L", "e", "e">>

Tom == <<"T", "o", "m">>

Meg == <<"M", "e", "g">>

\* the values a query string may give each parameter
ParamOptions ==
    [unwatched_only |-> <<FALSE>>,
     genre          |-> <<Some("Action")>>,
     mood           |-> <<Some("thrilling"), Some("cozy"), Some("quick"),
                          Some("acclaimed"), Some("blank"), Some("unknown")>>,
     year_start     |-> <<Some(0), Some(2000)>>,
     year_end       |-> <<Some(0), Some(1999)>>,
     decade         |-> <<Some(<<"1", "9", "9", "0", "s">>),
                          Some(<<"1", "9", "9", "x">>)>>,
     runtime_min    |-> <<Some(0), Some(100)>>,
     runtime_max    |-> <<Some(0), Some(100)>>,
     rating_min     |-> <<Some(0), Some(7)>>,
     actor          |-> <<Some(<<"O", "M">>)>>,
     director       |-> <<Some(<<"n", "O", "L">>)>>,
     limit          |-> <<0 - 2, 0 - 1, 0, 1, 2, 3, 4>>,
     sort_order     |-> <<"rating", "recent", "oldest", "newest">>]

\* the query whose parameters `given` take the values `choice` picks
Query(given, choice) ==
    [k \in DOMAIN DefaultQuery |->
        IF k \in given THEN ParamOptions[k][choice[k]] ELSE DefaultQuery[k]]

Choices(given) ==
    {c \in [given -> 1..7] : \A k \in given : c[k] <= Len(ParamOptions[k])}

FilterParams == DOMAIN DefaultQuery \ {"limit", "sort_order"}

-----------------------------------------------------------------------------
(* SpecFilter: one movie, every combination of its fields, under /search   *)

FilterMovies ==
    [watched  : BOOLEAN,
     genres   : {<<>>, <<"Action">>, <<"Comedy", "Horror">>},
     rating   : {None, Some(6), Some(7)},
     runtime  : {Some(0), Some(100), Some(130)},
     year     : {None, Some(1990), Some(1999), Some(2000)},
     director : {None, Some(Nolan), Some(Lee)},
     actors   : {<<>>, <<Meg, Tom>>},
     added_at : {None}]

FilterInit == \E m \in FilterMovies : WarmInit(<<m>>)

FilterNext ==
    \E given \in {g \in SUBSET FilterParams : Cardinality(g) <= MaxParams} :
        \E choice \in Choices(given) : search(Query(given, choice))

FilterStep == FilterNext \/ respond

SpecFilter == FilterInit /\ [][FilterStep]_vars

-----------------------------------------------------------------------------
(* get_history and /recommend *)

\* get_history(limit=50, days=90)
HISTORY_LIMIT == 50

\* PlexService.get_history: the items viewed since the cutoff, at most `limit`
\* of them; [] when server.history() raises
get_history(limit, fetch_ok) ==
    IF fetch_ok
    THEN SliceTo(SelectSeq(history, LAMBDA item : item.recent), limit)
    ELSE <<>>

\* every genre of every history item, in the order the two loops visit them
RECURSIVE GenresSeen(_)
GenresSeen(history_items) ==
    IF history_items = <<>> THEN <<>>
    ELSE Head(history_items).genres \o GenresSeen(Tail(history_items))

\* the keys of genre_counts, in insertion order
RECURSIVE FirstSeen(_)
FirstSeen(seen) ==
    IF seen = <<>> THEN <<>>
    ELSE LET before == FirstSeen(SubSeq(seen, 1, Len(seen) - 1)) IN
         IF seen[Len(seen)] \in Range(before) THEN before
         ELSE Append(before, seen[Len(seen)])

\* sorted(genre_counts.items(), key=count, reverse=True)[:3], the genres of it
favorite_genres(history_items) ==
    LET seen == GenresSeen(history_items)
        keys == FirstSeen(seen)
        count == [k \in 1..Len(keys) |->
                    Cardinality({j \in 1..Len(seen) : seen[j] = keys[k]})]
        top_genres == sort_reverse([k \in 1..Len(keys) |-> k], count)
    IN [k \in 1..Min(3, Len(keys)) |-> keys[top_genres[k]]]

\* the mood block of /recommend's loop, with the rating bound exclusive
recommend_mood_pass_exclusive(movie, rule) ==
    LET movie_genres == Range(movie.genres) IN
    /\ ~ (rule.genres # None
          /\ ~ \E g \in Val(rule.genres) : g \in movie_genres)
    /\ ~ (rule.exclude_genres # None
          /\ \E g \in Val(rule.exclude_genres) : g \in movie_genres)
    /\ ~ (rule.rating_min # None
          /\ OrNum(movie.rating, 0) <= Val(rule.rating_min))
    /\ ~ (rule.runtime_max # None
          /\ OrNum(movie.runtime, 0) > Val(rule.runtime_max))

\* the mood block of /recommend's loop: TRUE when no `continue` is taken
recommend_mood_pass(movie, rule) ==
    LET movie_genres == Range(movie.genres) IN
    /\ ~ (rule.genres # None
          /\ ~ \E g \in Val(rule.genres) : g \in movie_genres)
    /\ ~ (rule.exclude_genres # None
          /\ \E g \in Val(rule.exclude_genres) : g \in movie_genres)
    /\ ~ (rule.rating_min # None
          /\ OrNum(movie.rating, 0) < Val(rule.rating_min))
    /\ ~ (rule.runtime_max # None
          /\ OrNum(movie.runtime, 0) > Val(rule.runtime_max))

\* one iteration of /recommend's loop: is the movie appended to candidates
is_candidate(movie, mood_config) ==
    /\ ~movie.watched
    /\ TruthyRule(mood_config) => recommend_mood_pass(movie, Val(mood_config))

\* a score that leaves the history preference out
score_without_history(movie, mood_config, favorites) ==
    (IF TruthyRule(mood_config) THEN 10 ELSE 0) + OrNum(movie.rating, 0)

\* the score of a movie that is appended to candidates
score_of(movie, mood_config, favorites) ==
    (IF TruthyRule(mood_config) THEN 10 ELSE 0)
    + Cardinality({g \in Range(movie.genres) : g \in Range(favorites)}) * 2
    + OrNum(movie.rating, 0)

\* the handler from the history fetch on, given the snapshot: its response
recommend_response(data, mood, count, history_ok) ==
    LET history_items == get_history(HISTORY_LIMIT, history_ok)
        favorites == favorite_genres(history_items)
        movies == data.movies
        mood_config == resolve_mood(mood)
        steps == [i \in 1..Len(movies) |->
                    IF is_candidate(movies[i], mood_config) THEN "keep" ELSE "drop"]
        candidates == KeptUpTo(steps, Len(movies))
        score == [i \in 1..Len(movies) |-> score_of(movies[i], mood_config, favorites)]
        ordered == sort_reverse(candidates, score)
    IN [kind |-> "recommend", status |-> "ok",
        filtered |-> candidates, ordered |-> ordered,
        score |-> score, favorites |-> favorites,
        body |-> SliceTo(ordered, count)]

\* the handler, run on a warm cache
recommend(mood, count, history_ok) ==
    /\ req.kind = "none"
    /\ server
    /\ cache_contains("library_data")
    /\ resp' = recommend_response(cache_getitem("library_data"), mood, count, history_ok)
    /\ req' = [kind |-> "recommend", mood |-> mood, count |-> count,
               history_ok |-> history_ok]
    /\ UNCHANGED <<server, library, history, cache, now, calls>>

-----------------------------------------------------------------------------
(* SpecRecommend: up to MaxCatalog movies and MaxHistory history items     *)

MaxCatalog == 2

MaxHistory == 2

RecMovie(watched, genres, rating, runtime) ==
    [watched |-> watched, genres |-> genres, rating |-> rating,
     runtime |-> runtime, year |-> Some(1999), director |-> None,
     actors |-> <<>>, added_at |-> None]

RecMovies ==
    {RecMovie(FALSE, <<"Action", "Drama">>,  Some(7), Some(100)),
     RecMovie(FALSE, <<"Drama">>,            Some(7), Some(100)),
     RecMovie(FALSE, <<"Action", "Comedy">>, Some(6), Some(130)),
     RecMovie(FALSE, <<"Comedy", "Horror">>, None,    Some(0)),
     RecMovie(TRUE,  <<"Action">>,           Some(9), Some(100))}

HistoryItems ==
    {[recent |-> TRUE,  genres |-> <<"Action", "Comedy">>],
     [recent |-> TRUE,  genres |-> <<"Horror", "Drama", "Comedy">>],
     [recent |-> FALSE, genres |-> <<"Action">>]}

RecommendInit ==
    \E movies_data \in ListsOf(RecMovies, MaxCatalog) :
        \E items \in ListsOf(HistoryItems, MaxHistory) :
            /\ server = TRUE
            /\ library = <<>>
            /\ history = items
            /\ now = 0
            /\ cache = {[key |-> "library_data",
                         value |-> library_data_of(movies_data, 0),
                         expires |-> CACHE_TTL]}
            /\ calls = <<>>
            /\ req = [kind |-> "none"]
            /\ resp = [kind |-> "none"]

RecommendNext ==
    \E mood \in {None, Some("thrilling"), Some("cozy"), Some("blank")} :
        \E count \in {0 - 1, 0, 1, DEFAULT_LIMIT} :
            \E history_ok \in BOOLEAN : recommend(mood, count, history_ok)

RecommendStep == RecommendNext \/ respond

SpecRecommend == RecommendInit /\ [][RecommendStep]_vars

-----------------------------------------------------------------------------
(* C1 *)

\* the movies of the snapshot the handlers read
Catalog == cache_getitem("library_data").movies

\* the clauses of the filter, stated on the movie's fields: a parameter is
\* "given" when it is present and not zero or empty, and a bound on the year
\* can only hold of a movie that has a year
ClausesHold(m, q) ==
    LET genres == Range(m.genres)
        rating == IF m.rating = None THEN 0 ELSE Val(m.rating)
        runtime == IF m.runtime = None THEN 0 ELSE Val(m.runtime)
        mood_known == q.mood # None /\ Val(q.mood) \in DOMAIN MOOD_MAPPINGS
        rule == MOOD_MAPPINGS[Val(q.mood)]
        decade_digits == StripS(Val(q.decade))
        decade_parses == q.decade # None /\ IntParse(decade_digits) # None
        D == DecimalVal(decade_digits)
    IN
    /\ q.unwatched_only => ~m.watched
    /\ TruthyTag(q.genre) => Val(q.genre) \in genres
    /\ mood_known =>
          /\ rule.genres # None => (genres \cap Val(rule.genres)) # {}
          /\ rule.exclude_genres # None => (genres \cap Val(rule.exclude_genres)) = {}
          /\ rule.rating_min # None => rating >= Val(rule.rating_min)
          /\ rule.runtime_max # None => runtime <= Val(rule.runtime_max)
    /\ TruthyNum(q.year_start) => m.year # None /\ Val(m.year) >= Val(q.year_start)
    /\ TruthyNum(q.year_end) => m.year # None /\ Val(m.year) <= Val(q.year_end)
    /\ decade_parses => m.year # None /\ D <= Val(m.year) /\ Val(m.year) < D + 10
    /\ TruthyNum(q.runtime_min) => runtime >= Val(q.runtime_min)
    /\ TruthyNum(q.runtime_max) => runtime <= Val(q.runtime_max)
    /\ TruthyNum(q.rating_min) => rating >= Val(q.rating_min)
    /\ TruthyStr(q.actor) =>
          \E a \in Range(m.actors) : Contains(Lower(Val(q.actor)), Lower(a))
    /\ TruthyStr(q.director) =>
          m.director # None /\ Contains(Lower(Val(q.director)), Lower(Val(m.director)))

\* C1: whatever the movie and the filter, /search's filter loop ends with a
\* result, and it keeps a movie exactly when every clause holds for it.
C1_FilterKeepsIffClausesHold ==
    resp.kind = "search" =>
        /\ resp.status = "ok"
        /\ \A i \in 1..Len(Catalog) :
              (i \in Range(resp.filtered)) <=> ClausesHold(Catalog[i], req.q)

\* The same with the failing requests set aside: when the loop does end, it
\* kept exactly the movies for which every clause holds.
FilterKeepsIffClausesHoldWhenItEnds ==
    (resp.kind = "search" /\ resp.status = "ok") =>
        \A i \in 1..Len(Catalog) :
            (i \in Range(resp.filtered)) <=> ClausesHold(Catalog[i], req.q)

\* a movie without a year met a year_start bound
FilterRaisedOnMissingYear ==
    /\ resp.kind = "search"
    /\ resp.status = "raised"
    /\ TruthyNum(req.q.year_start)
    /\ \E i \in 1..Len(Catalog) : Catalog[i].year = None

-----------------------------------------------------------------------------
(* SpecSelect: up to MaxMovies movies under /search's sorting and limits   *)

SelectMovie(rating, added_at, year, watched) ==
    [watched |-> watched, genres |-> <<"Action">>, rating |-> rating,
     runtime |-> Some(100), year |-> year, director |-> Some(Nolan),
     actors |-> <<Tom>>, added_at |-> added_at]

SelectMovies ==
    {SelectMovie(Some(9), Some(2), Some(1999), FALSE),
     SelectMovie(Some(1), Some(1), Some(2000), FALSE),
     SelectMovie(None,    None,    None,       FALSE),
     SelectMovie(Some(0), Some(1), Some(1999), FALSE),
     SelectMovie(Some(9), Some(1), None,       TRUE)}

SelectInit == \E movies_data \in ListsOf(SelectMovies, MaxMovies) : WarmInit(movies_data)

SelectNext ==
    \E given \in SUBSET {"limit", "sort_order", "unwatched_only"} :
        \E choice \in Choices(given) : search(Query(given, choice))

SelectStep == SelectNext \/ respond

SpecSelect == SelectInit /\ [][SelectStep]_vars

-----------------------------------------------------------------------------
(* C2, C3, C4 *)

IsSearchResult == resp.kind = "search" /\ resp.status = "ok"

Distinct(s) == \A a, b \in 1..Len(s) : a # b => s[a] # s[b]

\* C2: whatever the sort strategy and the limit, /search returns at most
\* `limit` movies, and none when limit <= 0.
C2_AtMostLimit ==
    IsSearchResult =>
        /\ Len(resp.body) <= Max(req.q.limit, 0)
        /\ req.q.limit <= 0 => resp.body = <<>>

\* The same for the limits that are not negative.
AtMostLimitWhenNotNegative ==
    (IsSearchResult /\ req.q.limit >= 0) => Len(resp.body) <= req.q.limit

\* a negative limit returned movies
NegativeLimitReturnsMovies ==
    IsSearchResult /\ req.q.limit < 0 /\ resp.body # <<>>

\* C3: the random strategy over a pool of n > 0 filtered movies with
\* limit >= 0 returns exactly min(limit, n) movies of the pool, no movie twice.
C3_RandomPicksMinLimitDistinct ==
    (IsSearchResult /\ req.q.sort_order = "random"
        /\ resp.filtered # <<>> /\ req.q.limit >= 0) =>
        /\ Len(resp.body) = Min(req.q.limit, Len(resp.filtered))
        /\ Distinct(resp.body)
        /\ Range(resp.body) \subseteq Range(resp.filtered)

\* the random strategy left one of three candidates out, and the one rated
\* lowest is not the one it left out
C3_Witness ==
    /\ IsSearchResult
    /\ req.q.sort_order = "random"
    /\ Len(resp.filtered) = 3
    /\ req.q.limit = 2
    /\ Len(resp.body) = 2
    /\ \E i \in Range(resp.filtered) \ Range(resp.body) :
          \E j \in Range(resp.body) : weight_of(Catalog[j]) < weight_of(Catalog[i])

RatingKey(i) == IF Catalog[i].rating = None THEN 0 ELSE Val(Catalog[i].rating)

\* i comes before j in the rating order: a higher rating, or the same rating
\* and an earlier place in the snapshot
RatedBefore(i, j) ==
    \/ RatingKey(i) > RatingKey(j)
    \/ RatingKey(i) = RatingKey(j) /\ i < j

\* C4: the rating strategy returns the filtered movies by descending rating
\* (absent as 0), equal ratings in snapshot order, cut after the first `limit`
\* (a negative limit still returns a leading part of that order).
C4_RatingOrderStable ==
    (IsSearchResult /\ req.q.sort_order = "rating") =>
        /\ Distinct(resp.body)
        /\ Range(resp.body) \subseteq Range(resp.filtered)
        /\ \A a, b \in 1..Len(resp.body) :
              a < b => RatedBefore(resp.body[a], resp.body[b])
        /\ \A i \in Range(resp.body) : \A j \in Range(resp.filtered) \ Range(resp.body) :
              RatedBefore(i, j)
        /\ req.q.limit >= 0 => Len(resp.body) = Min(req.q.limit, Len(resp.filtered))

\* three movies came back by rating: two with the same rating key in snapshot
\* order, behind a higher-rated one that the snapshot lists after them
C4_Witness ==
    /\ IsSearchResult
    /\ req.q.sort_order = "rating"
    /\ Len(resp.body) = 3
    /\ RatingKey(resp.body[2]) = RatingKey(resp.body[3])
    /\ RatingKey(resp.body[1]) > RatingKey(resp.body[2])
    /\ resp.body[1] > resp.body[3]

-----------------------------------------------------------------------------
(* C5, C6, C7 *)

IsRecommendation == resp.kind = "recommend" /\ resp.status = "ok"

\* the genres of the history the handler was given, in viewing order
HistoryGenres ==
    IF req.history_ok
    THEN GenresSeen(SelectSeq(history, LAMBDA item : item.recent))
    ELSE <<>>

TimesSeen(g) == Cardinality({j \in 1..Len(HistoryGenres) : HistoryGenres[j] = g})

FirstSeenAt(g) == CHOOSE j \in 1..Len(HistoryGenres) :
                     /\ HistoryGenres[j] = g
                     /\ \A k \in 1..(j - 1) : HistoryGenres[k] # g

\* g ranks before h: seen more often, or as often and seen first
RanksBefore(g, h) ==
    \/ TimesSeen(g) > TimesSeen(h)
    \/ TimesSeen(g) = TimesSeen(h) /\ FirstSeenAt(g) < FirstSeenAt(h)

\* the top-3 history genres
Top3 == {g \in Range(HistoryGenres) :
            Cardinality({h \in Range(HistoryGenres) : RanksBefore(h, g)}) < 3}

\* the score as the specification states it, given the top-3 genres
StatedScore(i, top3) ==
    (IF req.mood # None /\ Val(req.mood) \in DOMAIN MOOD_MAPPINGS THEN 10 ELSE 0)
    + 2 * Cardinality(Range(Catalog[i].genres) \cap top3)
    + (IF Catalog[i].rating = None THEN 0 ELSE Val(Catalog[i].rating))

\* i comes before j under the scores `stated`: a higher score, or the same
\* score and an earlier place in the catalog
ScoredBefore(i, j, stated) ==
    \/ stated[i] > stated[j]
    \/ stated[i] = stated[j] /\ i < j

\* j is i without its genre g, and the same otherwise
SameBut(i, j, g) ==
    /\ g \in Range(Catalog[i].genres)
    /\ Range(Catalog[j].genres) = Range(Catalog[i].genres) \ {g}
    /\ Catalog[j].rating = Catalog[i].rating
    /\ Catalog[j].runtime = Catalog[i].runtime

\* C5: /recommend returns its candidates by descending score (10 for a
\* resolved mood rule, 2 for each genre among the top-3 history genres, plus
\* the rating), equal scores in catalog order; the scores the handler
\* computes differ between candidates as the stated scores do, so a top-3
\* genre is worth at least 2 over the same candidate without it.
C5_ScoreOrderStable ==
    IsRecommendation =>
        LET top3 == Top3
            stated == [i \in 1..Len(Catalog) |-> StatedScore(i, top3)]
        IN
        /\ Range(resp.favorites) = top3
        /\ \A a, b \in 1..Len(resp.favorites) :
              a < b => RanksBefore(resp.favorites[a], resp.favorites[b])
        /\ \A a, b \in 1..Len(resp.body) :
              a < b => ScoredBefore(resp.body[a], resp.body[b], stated)
        /\ \A i \in Range(resp.body) : \A j \in Range(resp.filtered) \ Range(resp.body) :
              ScoredBefore(i, j, stated)
        /\ \A i, j \in Range(resp.filtered) :
              resp.score[i] - resp.score[j] = stated[i] - stated[j]
        /\ \A i, j \in Range(resp.filtered) : \A g \in top3 :
              SameBut(i, j, g) => resp.score[i] >= resp.score[j] + 2

\* a fourth history genre stayed out of the top 3, and of two candidates that
\* differ by one top-3 genre the one that has it was returned first although
\* the catalog lists it second
C5_Witness ==
    /\ IsRecommendation
    /\ Cardinality(Range(HistoryGenres)) = 4
    /\ Len(resp.body) >= 2
    /\ resp.body[1] > resp.body[2]
    /\ \E g \in Top3 : SameBut(resp.body[1], resp.body[2], g)

\* C6: whatever the history, the catalog, the mood and the count, /recommend
\* returns at most `count` movies (none for count <= 0), all of them catalog
\* movies that are not watched.
C6_AtMostCountUnwatched ==
    IsRecommendation =>
        /\ Len(resp.body) <= Max(req.count, 0)
        /\ \A i \in Range(resp.body) : i \in 1..Len(Catalog) /\ ~Catalog[i].watched

\* The same for the counts that are not negative.
AtMostCountUnwatchedWhenNotNegative ==
    (IsRecommendation /\ req.count >= 0) =>
        /\ Len(resp.body) <= req.count
        /\ \A i \in Range(resp.body) : i \in 1..Len(Catalog) /\ ~Catalog[i].watched

\* a negative count returned movies
NegativeCountReturnsMovies ==
    IsRecommendation /\ req.count < 0 /\ resp.body # <<>>

\* the mood clause as the specification states it
StatedMoodClause(m, rule) ==
    LET genres == Range(m.genres)
        rating == IF m.rating = None THEN 0 ELSE Val(m.rating)
        runtime == IF m.runtime = None THEN 0 ELSE Val(m.runtime)
    IN
    /\ rule.genres # None => (genres \cap Val(rule.genres)) # {}
    /\ rule.exclude_genres # None => (genres \cap Val(rule.exclude_genres)) = {}
    /\ rule.rating_min # None => rating >= Val(rule.rating_min)
    /\ rule.runtime_max # None => runtime <= Val(rule.runtime_max)

\* C7: /recommend's hard mood filter accepts a movie exactly when /search's
\* mood clause does, which is when the stated clause holds (rating bound
\* inclusive); the candidates are the unwatched movies that pass it, and no
\* other movie is recommended.
C7_MoodFilterSameAsSearch ==
    IsRecommendation =>
        /\ \A name \in DOMAIN MOOD_MAPPINGS : \A i \in 1..Len(Catalog) :
              /\ recommend_mood_pass(Catalog[i], MOOD_MAPPINGS[name])
                    <=> search_mood_pass(Catalog[i], MOOD_MAPPINGS[name])
              /\ recommend_mood_pass(Catalog[i], MOOD_MAPPINGS[name])
                    <=> StatedMoodClause(Catalog[i], MOOD_MAPPINGS[name])
        /\ \A i \in 1..Len(Catalog) :
              (i \in Range(resp.filtered)) <=>
                 /\ ~Catalog[i].watched
                 /\ (req.mood # None /\ Val(req.mood) \in DOMAIN MOOD_MAPPINGS)
                       => search_mood_pass(Catalog[i], MOOD_MAPPINGS[Val(req.mood)])
        /\ Range(resp.body) \subseteq Range(resp.filtered)

\* under a rule with a minimum rating, a movie rated exactly the minimum was
\* recommended and an unwatched movie rated below it, of a required genre,
\* was not a candidate
C7_Witness ==
    /\ IsRecommendation
    /\ req.mood # None
    /\ Val(req.mood) \in DOMAIN MOOD_MAPPINGS
    /\ MOOD_MAPPINGS[Val(req.mood)].rating_min # None
    /\ \E i \in Range(resp.body) :
          Catalog[i].rating = MOOD_MAPPINGS[Val(req.mood)].rating_min
    /\ \E j \in 1..Len(Catalog) :
          /\ ~Catalog[j].watched
          /\ j \notin Range(resp.filtered)
          /\ Catalog[j].rating # None
          /\ Val(Catalog[j].rating) < Val(MOOD_MAPPINGS[Val(req.mood)].rating_min)
          /\ Range(Catalog[j].genres) \cap Val(MOOD_MAPPINGS[Val(req.mood)].genres) # {}

-----------------------------------------------------------------------------
(* PlexService.get_library_data, one step per access to shared state       *)

\* the clock stops one tick after an item stored at time 0 has expired
MaxTime == CACHE_TTL + 1

\* two request threads: a race on the cache is between a call and one other
Threads == {1, 2}

PlexMovie(genres, roles, directors) ==
    [isPlayed |-> FALSE, genres |-> genres, audienceRating |-> None,
     rating |-> Some(7), duration |-> Some(5400000), year |-> Some(1999),
     directors |-> directors, roles |-> roles, addedAt |-> Some(1)]

MovieA == PlexMovie(<<"Action", "Comedy">>, <<Tom, Meg>>, <<Nolan, Lee>>)

MovieB == PlexMovie(<<"Comedy">>, <<Meg>>, <<>>)

MovieC == PlexMovie(<<>>, <<>>, <<Lee>>)

\* what the library section may hold
LibraryContents == {<<MovieA, MovieB>>, <<MovieC>>}

Idle == [pc |-> "idle", force_refresh |-> FALSE, fresh |-> FALSE,
         all_movies |-> <<>>, acc |-> NoMovies, outcome |-> "none", result |-> None]

\* the call returns (or raises): the loop's locals are gone unless a dict
\* was built from them
Returned(c, outcome, result) ==
    IF outcome = "refreshed"
    THEN [c EXCEPT !.pc = "done", !.outcome = outcome, !.result = result]
    ELSE [c EXCEPT !.pc = "done", !.outcome = outcome, !.result = result,
                   !.all_movies = <<>>, !.acc = NoMovies]

\* the call begins: `if not self.server: self._connect()`, and None is
\* returned when there is still no server
call(t, force_refresh, connect_ok) ==
    /\ calls[t].pc = "idle"
    /\ IF server
       THEN /\ calls' = [calls EXCEPT ![t] = [Idle EXCEPT !.pc = "check",
                                                         !.force_refresh = force_refresh]]
            /\ UNCHANGED server
       ELSE /\ server' = connect_ok
            /\ calls' = [calls EXCEPT ![t] =
                  IF connect_ok
                  THEN [Idle EXCEPT !.pc = "check", !.force_refresh = force_refresh]
                  ELSE Returned([Idle EXCEPT !.force_refresh = force_refresh],
                                "unconnected", None)]
    /\ UNCHANGED <<library, history, cache, now, req, resp>>

\* `if not force_refresh and 'library_data' in self.cache`
check(t) ==
    /\ calls[t].pc = "check"
    /\ calls' = [calls EXCEPT ![t] =
          [@ EXCEPT !.fresh = cache_contains("library_data"),
                    !.pc = IF ~calls[t].force_refresh /\ cache_contains("library_data")
                           THEN "read" ELSE "fetch"]]
    /\ UNCHANGED <<server, library, history, cache, now, req, resp>>

\* `return self.cache['library_data']`: a KeyError, outside any try, when
\* the item is gone or has expired since the check
read(t) ==
    /\ calls[t].pc = "read"
    /\ calls' = [calls EXCEPT ![t] =
          IF cache_contains("library_data")
          THEN Returned(@, "cached", Some(cache_getitem("library_data")))
          ELSE Returned(@, "raised", None)]
    /\ UNCHANGED <<server, library, history, cache, now, req, resp>>

\* a fetch that drops the cached item before it asks the source
fetch_after_invalidate(t, ok) ==
    /\ calls[t].pc = "fetch"
    /\ cache' = {}
    /\ calls' = [calls EXCEPT ![t] =
          IF ok THEN [@ EXCEPT !.pc = "build", !.all_movies = library]
          ELSE Returned(@, "failed", None)]
    /\ UNCHANGED <<server, library, history, now, req, resp>>

\* `all_movies = self.library_section.all()`; an exception returns None
fetch(t, ok) ==
    /\ calls[t].pc = "fetch"
    /\ calls' = [calls EXCEPT ![t] =
          IF ok THEN [@ EXCEPT !.pc = "build", !.all_movies = library]
          ELSE Returned(@, "failed", None)]
    /\ UNCHANGED <<server, library, history, cache, now, req, resp>>

\* a loop test that is always true: the store is reached with movies unread
loop_ended_early(c) == TRUE

\* the for loop has visited every movie
loop_ended(c) == Len(c.acc.movies_data) = Len(c.all_movies)

\* one iteration of the loop; an exception returns None
serialize(t, ok) ==
    /\ calls[t].pc = "build"
    /\ ~loop_ended(calls[t])
    /\ calls' = [calls EXCEPT ![t] =
          IF ok
          THEN [@ EXCEPT !.acc = aggregate(@,
                   serialize_movie(calls[t].all_movies[Len(calls[t].acc.movies_data) + 1]))]
          ELSE Returned(@, "failed", None)]
    /\ UNCHANGED <<server, library, history, cache, now, req, resp>>

\* after the loop: the dict is built, stored and returned
store(t) ==
    /\ calls[t].pc = "build"
    /\ loop_ended(calls[t])
    /\ LET data == library_data(calls[t].acc, now) IN
       /\ cache' = cache_setitem("library_data", data)
       /\ calls' = [calls EXCEPT ![t] = Returned(@, "refreshed", Some(data))]
    /\ UNCHANGED <<server, library, history, now, req, resp>>

\* the caller has its answer and the thread is free for another call
finish(t) ==
    /\ calls[t].pc = "done"
    /\ calls' = [calls EXCEPT ![t] = Idle]
    /\ UNCHANGED <<server, library, history, cache, now, req, resp>>

\* time passes
tick ==
    /\ now < MaxTime
    /\ now' = now + 1
    /\ UNCHANGED <<server, library, history, cache, calls, req, resp>>

\* the library section changes on the Plex server
library_changes ==
    /\ \E content \in LibraryContents \ {library} : library' = content
    /\ UNCHANGED <<server, history, cache, now, calls, req, resp>>

CacheInit ==
    /\ server \in BOOLEAN
    /\ library \in LibraryContents
    /\ history = <<>>
    /\ cache = {}
    /\ now = 0
    /\ calls = [t \in Threads |-> Idle]
    /\ req = [kind |-> "none"]
    /\ resp = [kind |-> "none"]

CacheNext ==
    \/ \E t \in Threads :
          \/ \E force_refresh, connect_ok \in BOOLEAN : call(t, force_refresh, connect_ok)
          \/ check(t)
          \/ read(t)
          \/ \E ok \in BOOLEAN : fetch(t, ok)
          \/ \E ok \in BOOLEAN : serialize(t, ok)
          \/ store(t)
          \/ finish(t)
    \/ tick
    \/ library_changes

SpecCache == CacheInit /\ [][CacheNext]_vars

-----------------------------------------------------------------------------
(* C8, C9, C10 *)

HasAnswer(t) == calls[t].pc = "done" /\ calls[t].outcome # "unconnected"

\* C8: the cache holds at most one item; a call on a connected server
\* returns the cached snapshot, without fetching, exactly when it is not
\* forced and an unexpired item is there; otherwise it fetches, and a fetch
\* that succeeds leaves its snapshot (or a later refresh's) in the cache.
C8_CachedExactlyWhenFresh ==
    /\ Cardinality(cache) <= 1
    /\ \A t \in Threads : HasAnswer(t) =>
          /\ calls[t].outcome = "cached"
                <=> (~calls[t].force_refresh /\ calls[t].fresh)
          /\ (calls[t].force_refresh \/ ~calls[t].fresh)
                => calls[t].outcome \in {"refreshed", "failed"}
          /\ calls[t].outcome = "refreshed" =>
                \E e \in cache :
                    /\ e.key = "library_data"
                    /\ \/ e.value = Val(calls[t].result)
                       \/ e.value.last_refresh >= Val(calls[t].result).last_refresh

\* The same with the calls that raise counted with the cached ones: the check
\* sends a call to the cache exactly when it is not forced and the item is
\* fresh.
CachedOrRaisedExactlyWhenFresh ==
    /\ Cardinality(cache) <= 1
    /\ \A t \in Threads : HasAnswer(t) =>
          /\ calls[t].outcome \in {"cached", "raised"}
                <=> (~calls[t].force_refresh /\ calls[t].fresh)
          /\ (calls[t].force_refresh \/ ~calls[t].fresh)
                => calls[t].outcome \in {"refreshed", "failed"}
          /\ calls[t].outcome = "refreshed" =>
                \E e \in cache :
                    /\ e.key = "library_data"
                    /\ \/ e.value = Val(calls[t].result)
                       \/ e.value.last_refresh >= Val(calls[t].result).last_refresh

\* a call that found the item fresh at the check raised at the read
RaisedAfterFreshCheck ==
    \E t \in Threads :
        /\ calls[t].pc = "done"
        /\ calls[t].outcome = "raised"
        /\ calls[t].fresh
        /\ ~calls[t].force_refresh

\* data is the whole snapshot of the library content `content`
SnapshotOf(data, content) ==
    /\ data.movies = [i \in 1..Len(content) |-> serialize_movie(content[i])]
    /\ data.genres = UNION {Range(content[i].genres) : i \in 1..Len(content)}
    /\ data.actors = UNION {Range(content[i].roles) : i \in 1..Len(content)}
    /\ data.directors = {content[i].directors[1] :
                            i \in {j \in 1..Len(content) : content[j].directors # <<>>}}

Complete(data) == \E content \in LibraryContents : SnapshotOf(data, content)

SetsMatchMovies(data) ==
    /\ data.genres = UNION {Range(data.movies[i].genres) : i \in 1..Len(data.movies)}
    /\ data.actors = UNION {Range(data.movies[i].actors) : i \in 1..Len(data.movies)}
    /\ data.directors = {Val(data.movies[i].director) :
                            i \in {j \in 1..Len(data.movies) : data.movies[j].director # None}}

\* C10: in every snapshot stored (and every one returned), the genres are
\* the union of the movies' genres, the actors the union of their actors,
\* the directors the set of their directors, absent ones apart.
C10_DerivedSetsAreUnions ==
    /\ \A e \in cache : SetsMatchMovies(e.value)
    /\ \A t \in Threads : (calls[t].pc = "done" /\ calls[t].result # None) =>
          SetsMatchMovies(Val(calls[t].result))

\* the cache holds a snapshot of two movies: they share a genre, the second
\* adds none and has no director, and each set is bigger than what the
\* second movie alone gives
C10_Witness ==
    \E e \in cache :
        /\ Len(e.value.movies) = 2
        /\ e.value.movies[2].director = None
        /\ e.value.directors # {}
        /\ Range(e.value.movies[2].genres) # {}
        /\ Range(e.value.movies[2].genres) # e.value.genres
        /\ Range(e.value.movies[2].actors) # e.value.actors

-----------------------------------------------------------------------------
(* The endpoints, each with its own call of get_library_data               *)

\* get_library_data as one request thread runs it: what it returns, and the
\* service it leaves. connect_ok: _connect gets a server; fetch_ok: neither
\* library_section.all() nor a _serialize_movie raises; expires_first: the
\* clock reaches the item's expiry between line 79 and line 80.
get_library_data(force_refresh, connect_ok, fetch_ok, expires_first) ==
    IF ~server /\ ~connect_ok
    THEN [outcome |-> "unconnected", data |-> None, cache |-> cache,
          server |-> FALSE, now |-> now]
    ELSE IF ~force_refresh /\ cache_contains("library_data")
    THEN LET expires == (CHOOSE e \in cache : e.key = "library_data").expires IN
         IF expires_first /\ expires <= MaxTime
         THEN [outcome |-> "raised", data |-> None, cache |-> cache,
               server |-> TRUE, now |-> expires]
         ELSE [outcome |-> "cached", data |-> Some(cache_getitem("library_data")),
               cache |-> cache, server |-> TRUE, now |-> now]
    ELSE IF ~fetch_ok
    THEN [outcome |-> "failed", data |-> None, cache |-> cache,
          server |-> TRUE, now |-> now]
    ELSE LET data == library_data_of(
                        [i \in 1..Len(library) |-> serialize_movie(library[i])], now)
         IN [outcome |-> "refreshed", data |-> Some(data),
             cache |-> cache_setitem("library_data", data),
             server |-> TRUE, now |-> now]

\* The handlers change lists in place. `movies` is the snapshot's own list
\* (app.py:78, app.py:293); filtered_movies (app.py:79), temp_pool
\* (app.py:179) and candidates (app.py:294) are new lists of the handler;
\* each list below is the movies it holds, as places in the snapshot.

\* a sort called on `movies`
sort_subject_movies == "movies"

\* filtered_movies.sort(...), app.py:158-162
sort_subject == "filtered_movies"

\* temp_pool.pop(i), app.py:187
pop_subject == "temp_pool"

\* random.shuffle(filtered_movies), app.py:191
shuffle_subject == "filtered_movies"

\* candidates.sort(...), app.py:337
rank_subject == "candidates"

\* the lists of a /search run that answers r, when it returns
lists_after_search(data, q, r) ==
    LET movies == data.movies
        held == [movies          |-> [i \in 1..Len(movies) |-> i],
                 filtered_movies |-> r.filtered,
                 temp_pool       |-> <<>>]
        w == [i \in 1..Len(movies) |-> weight_of(movies[i])]
    IN IF r.status # "ok" THEN {held}
       ELSE IF q.sort_order # "random"
       THEN {[held EXCEPT
                ![sort_subject] = sorted_movies(movies, @, q.sort_order)]}
       ELSE IF r.filtered = <<>> THEN {held}
       ELSE IF SumWeights(r.filtered, w, Len(r.filtered)) > 0
       THEN LET copied == [held EXCEPT !.temp_pool = r.filtered] IN
            {[copied EXCEPT
                ![pop_subject] = SelectSeq(@, LAMBDA i : i \notin Range(r.body))]}
       ELSE {[held EXCEPT ![shuffle_subject] = p] : p \in Shuffles(held[shuffle_subject])}

\* the lists of a /recommend run that answers r, when it returns
lists_after_recommend(data, r) ==
    LET held == [movies     |-> [i \in 1..Len(data.movies) |-> i],
                 candidates |-> r.filtered]
    IN [held EXCEPT ![rank_subject] = sort_reverse(@, r.score)]

\* the cache once the list of the snapshot `data` holds its movies in `order`
cache_after(items, data, order) ==
    {IF e.value = data
     THEN [e EXCEPT !.value.movies = [i \in 1..Len(order) |-> data.movies[order[i]]]]
     ELSE e : e \in items}

\* jsonify({"error": ...}), 500
Failed(kind) == [kind |-> kind, status |-> "failed", filtered |-> <<>>,
                 ordered |-> <<>>, body |-> <<>>]

\* GET /search
search_endpoint(q, connect_ok, fetch_ok, expires_first) ==
    /\ req.kind = "none"
    /\ LET lib == get_library_data(FALSE, connect_ok, fetch_ok, expires_first) IN
       /\ server' = lib.server
       /\ now' = lib.now
       /\ req' = [kind |-> "search", q |-> q, library |-> lib.outcome,
                  history_ok |-> TRUE]
       /\ IF lib.outcome = "raised"
          THEN resp' = Raised("search") /\ cache' = lib.cache
          ELSE IF lib.data = None
          THEN resp' = Failed("search") /\ cache' = lib.cache
          ELSE \E r \in search_responses(Val(lib.data), q) :
                  \E lists \in lists_after_search(Val(lib.data), q, r) :
                     /\ resp' = r
                     /\ cache' = cache_after(lib.cache, Val(lib.data), lists.movies)
    /\ UNCHANGED <<library, history, calls>>

\* GET /recommend. get_history runs first and makes its own attempt to
\* connect; its fetch fails when there is no server or server.history raises
recommend_endpoint(mood, count, connect_first, history_ok, connect_ok, fetch_ok, expires_first) ==
    /\ req.kind = "none"
    /\ LET connected == server \/ connect_first
           fetched == connected /\ history_ok
           lib == get_library_data(FALSE, connected \/ connect_ok, fetch_ok,
                                   expires_first)
       IN
       /\ server' = lib.server
       /\ now' = lib.now
       /\ req' = [kind |-> "recommend", mood |-> mood, count |-> count,
                  library |-> lib.outcome, history_ok |-> fetched]
       /\ IF lib.outcome = "raised"
          THEN resp' = Raised("recommend") /\ cache' = lib.cache
          ELSE IF lib.data = None
          THEN resp' = Failed("recommend") /\ cache' = lib.cache
          ELSE LET r == recommend_response(Val(lib.data), mood, count, fetched) IN
               /\ resp' = r
               /\ cache' = cache_after(lib.cache, Val(lib.data),
                                       lists_after_recommend(Val(lib.data), r).movies)
    /\ UNCHANGED <<library, history, calls>>

\* the JSON object /library-stats answers with
stats_of(data) ==
    [total_movies      |-> Len(data.movies),
     unwatched_movies  |-> Cardinality({i \in 1..Len(data.movies) :
                                          ~data.movies[i].watched}),
     genres            |-> UNION {Range(data.movies[i].genres) :
                                    i \in 1..Len(data.movies)},
     decades_available |-> {(Val(data.movies[i].year) \div 10) * 10 :
                              i \in {j \in 1..Len(data.movies) :
                                       TruthyNum(data.movies[j].year)}},
     last_updated      |-> data.last_refresh]

\* GET /library-stats: the handler reads the movies and fills two sets of
\* its own
library_stats(connect_ok, fetch_ok, expires_first) ==
    /\ req.kind = "none"
    /\ LET lib == get_library_data(FALSE, connect_ok, fetch_ok, expires_first) IN
       /\ server' = lib.server
       /\ cache' = lib.cache
       /\ now' = lib.now
       /\ req' = [kind |-> "stats", library |-> lib.outcome, history_ok |-> TRUE]
       /\ IF lib.outcome = "raised" THEN resp' = Raised("stats")
          ELSE IF lib.data = None THEN resp' = Failed("stats")
          ELSE resp' = [kind |-> "stats", status |-> "ok", filtered |-> <<>>,
                        ordered |-> <<>>, body |-> <<>>,
                        stats |-> stats_of(Val(lib.data))]
    /\ UNCHANGED <<library, history, calls>>

-----------------------------------------------------------------------------
(* SpecEndpoints: the three endpoints, one request at a time, over a       *)
(* library that changes and a cache that expires                           *)

SectionMovie(isPlayed, genres, audienceRating, rating, year, addedAt) ==
    [isPlayed |-> isPlayed, genres |-> genres, audienceRating |-> audienceRating,
     rating |-> rating, duration |-> Some(5400000), year |-> year,
     directors |-> <<Nolan>>, roles |-> <<Tom>>, addedAt |-> addedAt]

Sections ==
    {<<>>,
     <<SectionMovie(FALSE, <<"Action">>, None,    Some(3), Some(2005), Some(1)),
       SectionMovie(FALSE, <<"Comedy">>, Some(9), Some(2), Some(1999), Some(2)),
       SectionMovie(TRUE,  <<"Action">>, None,    Some(6), Some(1987), Some(3))>>,
     <<SectionMovie(TRUE,  <<"Drama">>,  Some(8), None,    Some(2010), Some(1))>>}

EndpointQueries ==
    {DefaultQuery,
     [DefaultQuery EXCEPT !.limit = 1],
     [DefaultQuery EXCEPT !.sort_order = "rating"],
     [DefaultQuery EXCEPT !.sort_order = "recent", !.unwatched_only = FALSE],
     [DefaultQuery EXCEPT !.sort_order = "oldest", !.unwatched_only = FALSE],
     [DefaultQuery EXCEPT !.genre = Some("Horror")]}

\* the library section changes on the Plex server
section_changes ==
    /\ \E content \in Sections \ {library} : library' = content
    /\ UNCHANGED <<server, history, cache, now, calls, req, resp>>

EndpointInit ==
    /\ server \in BOOLEAN
    /\ library \in Sections
    /\ history \in ListsOf(HistoryItems, 1)
    /\ cache = {}
    /\ now = 0
    /\ calls = <<>>
    /\ req = [kind |-> "none"]
    /\ resp = [kind |-> "none"]

EndpointNext ==
    \/ \E q \in EndpointQueries : \E connect_ok, fetch_ok, expires_first \in BOOLEAN :
          search_endpoint(q, connect_ok, fetch_ok, expires_first)
    \/ \E mood \in {None, Some("thrilling")} : \E count \in {1, DEFAULT_LIMIT} :
          \E connect_first, history_ok, connect_ok, fetch_ok, expires_first \in BOOLEAN :
             recommend_endpoint(mood, count, connect_first, history_ok, connect_ok,
                                fetch_ok, expires_first)
    \/ \E connect_ok, fetch_ok, expires_first \in BOOLEAN :
          library_stats(connect_ok, fetch_ok, expires_first)
    \/ respond
    \/ tick
    \/ section_changes

SpecEndpoints == EndpointInit /\ [][EndpointNext]_vars

-----------------------------------------------------------------------------
(* C11 *)

\* a request has been answered by one of the three endpoints
IsAnswer == req.kind \in {"search", "recommend", "stats"} /\ resp.kind = req.kind

\* C11: an endpoint answers with a failure exactly when the upstream data it
\* needs was not obtained: get_library_data gave no snapshot or, for
\* /recommend, the history fetch failed.
C11_FailureIffUpstreamFailed ==
    IsAnswer =>
        (resp.status # "ok"
            <=> \/ req.library \notin {"cached", "refreshed"}
                \/ ~req.history_ok)

\* The same without the history: an endpoint answers with a failure exactly
\* when get_library_data gave it no snapshot, and with a handled one (the
\* error body, 500) exactly when get_library_data returned None.
FailureIffNoSnapshot ==
    IsAnswer =>
        /\ resp.status # "ok" <=> req.library \notin {"cached", "refreshed"}
        /\ resp.status = "failed" <=> req.library \in {"unconnected", "failed"}

\* /recommend answered with recommendations although the history fetch failed
HistoryFailureAnsweredOk ==
    /\ IsAnswer
    /\ req.kind = "recommend"
    /\ ~req.history_ok
    /\ resp.status = "ok"
    /\ resp.body # <<>>

\* a snapshot was obtained, nothing matched, and the answer is an empty list
NoMatchAnsweredEmpty ==
    /\ IsAnswer
    /\ req.kind = "search"
    /\ req.library \in {"cached", "refreshed"}
    /\ Catalog # <<>>
    /\ resp.status = "ok"
    /\ resp.body = <<>>

-----------------------------------------------------------------------------
(* require_api_key *)

\* s.startswith(p)
StartsWith(s, p) == Len(s) >= Len(p) /\ SubSeq(s, 1, Len(p)) = p

\* s.split(' '): the pieces of s between its spaces, empty ones included
RECURSIVE SplitSpaces(_)
SplitSpaces(s) ==
    LET spaces == {i \in 1..Len(s) : s[i] = " "} IN
    IF spaces = {} THEN <<s>>
    ELSE LET i == CHOOSE k \in spaces : \A j \in spaces : k <= j IN
         <<SubSeq(s, 1, i - 1)>> \o SplitSpaces(SubSeq(s, i + 1, Len(s)))

Bearer == <<"B", "e", "a", "r", "e", "r", " ">>

\* the key the decorator compares with API_KEY
request_key(x_api_key, query_key, authorization) ==
    IF TruthyStr(authorization) /\ StartsWith(Val(authorization), Bearer)
    THEN Some(SplitSpaces(Val(authorization))[2])
    ELSE IF TruthyStr(x_api_key) THEN x_api_key ELSE query_key

\* decorated_function: api_key is os.getenv('API_KEY'), the other three are
\* what the request carries in its header, its query string and its
\* Authorization header
require_api_key(api_key, x_api_key, query_key, authorization) ==
    /\ req.kind = "none"
    /\ req' = [kind |-> "auth", api_key |-> api_key, x_api_key |-> x_api_key,
               query_key |-> query_key, authorization |-> authorization]
    /\ LET key == request_key(x_api_key, query_key, authorization) IN
       IF ~TruthyStr(api_key) THEN resp' = [kind |-> "auth", status |-> "handler"]
       ELSE IF TruthyStr(key) /\ key = api_key
       THEN resp' = [kind |-> "auth", status |-> "handler"]
       ELSE resp' = [kind |-> "auth", status |-> "401"]
    /\ UNCHANGED <<server, library, history, cache, now, calls>>

-----------------------------------------------------------------------------
(* SpecAuth: every request of a small alphabet against every configuration *)

Secret == <<"k", "1">>

Wrong == <<"k", "2">>

\* API_KEY unset, set to the empty string, set to the secret
ApiKeys == {None, Some(<<>>), Some(Secret)}

HeaderKeys == {None, Some(<<>>), Some(Secret), Some(Wrong)}

QueryKeys == {None, Some(<<>>), Some(Secret), Some(Wrong)}

Authorizations ==
    {None, Some(<<>>),
     Some(Bearer \o Secret), Some(Bearer \o Wrong),
     Some(Bearer), Some(Bearer \o <<" ">> \o Secret),
     Some(Bearer \o Secret \o <<" ">> \o Wrong),
     Some(<<"B", "a", "s", "i", "c", " ">> \o Secret), Some(Secret)}

AuthInit ==
    /\ server = FALSE
    /\ library = <<>>
    /\ history = <<>>
    /\ cache = {}
    /\ now = 0
    /\ calls = <<>>
    /\ req = [kind |-> "none"]
    /\ resp = [kind |-> "none"]

AuthNext ==
    \/ \E api_key \in ApiKeys : \E x_api_key \in HeaderKeys :
          \E query_key \in QueryKeys : \E authorization \in Authorizations :
             require_api_key(api_key, x_api_key, query_key, authorization)
    \/ respond

SpecAuth == AuthInit /\ [][AuthNext]_vars

-----------------------------------------------------------------------------
(* C12 *)

IsAuthAnswer == req.kind = "auth" /\ resp.kind = "auth"

Configured == req.api_key # None /\ Val(req.api_key) # <<>>

\* the channels of the request that carry the configured secret
ChannelsWithSecret ==
    {c \in {"x_api_key", "query_key", "authorization"} :
        \/ c = "x_api_key" /\ req.x_api_key = req.api_key
        \/ c = "query_key" /\ req.query_key = req.api_key
        \/ c = "authorization"
              /\ req.authorization = Some(Bearer \o Val(req.api_key))}

\* C12: the handler runs exactly when no secret is configured or at least
\* one of the three channels carries the configured secret, whatever the
\* other channels carry; every other request gets the 401.
C12_HandlerIffSecretOnSomeChannel ==
    IsAuthAnswer =>
        /\ resp.status \in {"handler", "401"}
        /\ resp.status = "handler" <=> (~Configured \/ ChannelsWithSecret # {})

\* The decorator looks at one channel only: the Bearer token when the
\* Authorization header has one, else the X-API-KEY header when it is not
\* empty, else the api_key parameter. The handler runs exactly when no secret
\* is configured or that channel carries it; and it never runs for a request
\* that carries the secret on no channel (as a Bearer token, up to the
\* token's first space).
HandlerIffSecretOnFirstChannel ==
    IsAuthAnswer =>
        LET bearer == req.authorization # None
                        /\ StartsWith(Val(req.authorization), Bearer)
            token == SplitSpaces(Val(req.authorization))[2]
            looked == IF bearer THEN Some(token)
                      ELSE IF req.x_api_key \notin {None, Some(<<>>)} THEN req.x_api_key
                      ELSE req.query_key
        IN
        /\ resp.status = "handler" <=> (~Configured \/ looked = req.api_key)
        /\ (resp.status = "handler" /\ Configured) =>
              \/ ChannelsWithSecret # {}
              \/ bearer /\ token = Val(req.api_key)

\* the X-API-KEY header carries the secret, the Authorization header a wrong
\* Bearer token, and the request got the 401
SecretInHeaderRefused ==
    /\ IsAuthAnswer
    /\ Configured
    /\ req.x_api_key = req.api_key
    /\ req.authorization = Some(Bearer \o Wrong)
    /\ resp.status = "401"

\* the api_key parameter carries the secret, the X-API-KEY header a wrong
\* key, there is no Authorization header, and the request got the 401
SecretInQueryRefused ==
    /\ IsAuthAnswer
    /\ Configured
    /\ req.query_key = req.api_key
    /\ req.x_api_key = Some(Wrong)
    /\ req.authorization = None
    /\ resp.status = "401"

-----------------------------------------------------------------------------
(* C13 *)

\* the snapshot a refresh builds from the library at time t
FreshSnapshot(t) ==
    library_data_of([i \in 1..Len(library) |-> serialize_movie(library[i])], t)

-----------------------------------------------------------------------------
(* C14, C15 *)

\* C14: with a server held, every get_library_data call ends by returning a
\* whole snapshot or None, never by raising, whatever happens to the cached
\* item between the check and the read.
C14_CallsReturnSnapshotOrNone ==
    \A t \in Threads : HasAnswer(t) =>
        /\ calls[t].outcome \in {"cached", "refreshed", "failed"}
        /\ calls[t].outcome = "failed" => calls[t].result = None
        /\ calls[t].outcome \in {"cached", "refreshed"} =>
              calls[t].result # None /\ Complete(Val(calls[t].result))

\* Every call that does not raise returns a whole snapshot or None, and a
\* call raises only at the read, after a check that found the item fresh.
CallsReturnSnapshotOrNoneUnlessRaised ==
    \A t \in Threads : HasAnswer(t) =>
        /\ calls[t].outcome \in {"cached", "refreshed", "failed", "raised"}
        /\ calls[t].outcome = "raised" =>
              calls[t].fresh /\ ~calls[t].force_refresh /\ calls[t].result = None
        /\ calls[t].outcome = "failed" => calls[t].result = None
        /\ calls[t].outcome \in {"cached", "refreshed"} =>
              calls[t].result # None /\ Complete(Val(calls[t].result))

\* C15: a refresh that fails returns None and leaves the cache as it was:
\* no step of a call writes the cache but the store that ends a successful
\* refresh, and a read made while the item is fresh, after a failure too,
\* returns the item's snapshot.
C15_FailedRefreshLeavesCache ==
    [][\A t \in Threads :
          /\ (calls'[t] # calls[t]
                /\ ~(calls[t].pc = "build" /\ calls'[t].outcome = "refreshed"))
                => cache' = cache
          /\ (calls[t].pc # "done" /\ calls'[t].pc = "done"
                /\ calls'[t].outcome = "failed")
                => calls'[t].result = None /\ cache' = cache
          /\ (calls[t].pc = "read" /\ calls'[t].pc = "done"
                /\ cache_contains("library_data"))
                => /\ calls'[t].outcome = "cached"
                   /\ calls'[t].result = Some(cache_getitem("library_data"))
                   /\ cache_getitem("library_data") \in
                         {e.value : e \in cache'}]_vars

\* a forced refresh has failed while the cache held a fresh item, the item
\* is still fresh, and the other thread's call has returned its snapshot
C15_Witness ==
    \E t, u \in Threads :
        /\ calls[t].pc = "done"
        /\ calls[t].outcome = "failed"
        /\ calls[t].force_refresh
        /\ calls[t].fresh
        /\ cache_contains("library_data")
        /\ calls[u].pc = "done"
        /\ calls[u].outcome = "cached"
        /\ calls[u].result = Some(cache_getitem("library_data"))

====
